---- MODULE Spec2Model ----
(***************************************************************************)
(* Model of libraries/rush-lib/src/utilities/InteractiveUpgradeUI.ts:      *)
(* the grouping of npm-check results into the choice list of the           *)
(* interactive upgrade prompt.                                             *)
(*                                                                         *)
(* JavaScript values are modelled as follows.  A string is a TLA+ string.  *)
(* The booleans and the absent value are the tokens "true", "false" and    *)
(* undefined, so that strict equality (!==) tells false from absent.  An   *)
(* object is a record whose DOMAIN is its set of keys ('k' in o is         *)
(* "k" \in DOMAIN o); a value stored in an array of mixed types carries    *)
(* its typeof.  The npm-check records live in a heap and are referred to   *)
(* by address, so that writing through a reference is visible.             *)
(***************************************************************************)
EXTENDS Integers, Sequences, FiniteSets, TLC

VARIABLES
    heap,             \* address -> INpmCheckPackage object
    input,            \* the heap as it was when upgradeInteractive was called
    pkgs,             \* the argument of upgradeInteractive: addresses
    pc,               \* position in upgradeInteractive (or in the label run)
    g,                \* index of the group UI_GROUPS.map is at
    mapped,           \* results of createChoices so far (before filter(Boolean))
    choicesGrouped,   \* const choicesGrouped
    k,                \* index of the for-of loop over choicesGrouped
    choices,          \* const choices of upgradeInteractive
    promptQuestions,  \* what inquirer.prompt was called with, or undefinedValue
    console,          \* lines written by console.log
    answers,          \* the value upgradeInteractive resolves to
    labelOut          \* the array label() returned (label run only)

vars == <<heap, input, pkgs, pc, g, mapped, choicesGrouped, k, choices,
          promptQuestions, console, answers, labelOut>>

----------------------------------------------------------------------------
(* Bounds of the model *)

MaxPkgs == 2

MaxSelected == 1

----------------------------------------------------------------------------
(* JavaScript values *)

undefined == "undefined"

undefinedValue == [typeof |-> "undefined"]

falseValue == [typeof |-> "boolean", value |-> "false"]

\* ToBoolean on the tokens the model uses
Truthy(v) == v \notin {undefined, "false", ""}

\* Boolean(v) on the elements of the mixed arrays
BooleanOf(v) == v.typeof = "object"

\* a[i] with JavaScript's out-of-range result (i is 1-based here)
At(a, i) == IF i \in DOMAIN a THEN a[i] ELSE undefined

\* a || b
Or(a, b) == IF Truthy(a) THEN a ELSE b

\* a && b
And(a, b) == IF Truthy(a) THEN b ELSE a

----------------------------------------------------------------------------
(* colors/safe: each style wraps the text in its escape codes *)

green(text) == "^[32m" \o text \o "^[39m"

yellow(text) == "^[33m" \o text \o "^[39m"

red(text) == "^[31m" \o text \o "^[39m"

magenta(text) == "^[35m" \o text \o "^[39m"

blue(text) == "^[34m" \o text \o "^[39m"

bold(text) == "^[1m" \o text \o "^[22m"

underline(text) == "^[4m" \o text \o "^[24m"

reset(text) == "^[0m" \o text \o "^[0m"

greenUnderlineBold(text) == underline(bold(green(text)))

yellowUnderlineBold(text) == underline(bold(yellow(text)))

redUnderlineBold(text) == underline(bold(red(text)))

magentaUnderlineBold(text) == underline(bold(magenta(text)))

----------------------------------------------------------------------------
(* The groups, in declaration order.  A filter is the object literal of    *)
(* the source: its DOMAIN is the set of keys written there, and the key    *)
(* bump may be present with the value undefined.                           *)

\* the first group's filter without its bump key
UI_GROUPS_MismatchAnyBump ==
    << [title |-> greenUnderlineBold("Update package.json to match version installed."),
        filter |-> [mismatch |-> "true"]],
       [title |-> greenUnderlineBold("Missing.") \o " " \o green("You probably want these."),
        filter |-> [notInstalled |-> "true", bump |-> undefined]],
       [title |-> greenUnderlineBold("Patch Update") \o " " \o green("Backwards-compatible bug fixes."),
        filter |-> [bump |-> "patch"]],
       [title |-> yellowUnderlineBold("Minor Update") \o " " \o yellow("New backwards-compatible features."),
        bgColor |-> "yellow",
        filter |-> [bump |-> "minor"]],
       [title |-> redUnderlineBold("Major Update") \o " " \o red("Potentially breaking API changes. Use caution."),
        filter |-> [bump |-> "major"]],
       [title |-> magentaUnderlineBold("Non-Semver") \o " " \o magenta("Versions less than 1.0.0, caution."),
        filter |-> [bump |-> "nonSemver"]] >>

UI_GROUPS ==
    << [title |-> greenUnderlineBold("Update package.json to match version installed."),
        filter |-> [mismatch |-> "true", bump |-> undefined]],
       [title |-> greenUnderlineBold("Missing.") \o " " \o green("You probably want these."),
        filter |-> [notInstalled |-> "true", bump |-> undefined]],
       [title |-> greenUnderlineBold("Patch Update") \o " " \o green("Backwards-compatible bug fixes."),
        filter |-> [bump |-> "patch"]],
       [title |-> yellowUnderlineBold("Minor Update") \o " " \o yellow("New backwards-compatible features."),
        bgColor |-> "yellow",
        filter |-> [bump |-> "minor"]],
       [title |-> redUnderlineBold("Major Update") \o " " \o red("Potentially breaking API changes. Use caution."),
        filter |-> [bump |-> "major"]],
       [title |-> magentaUnderlineBold("Non-Semver") \o " " \o magenta("Versions less than 1.0.0, caution."),
        filter |-> [bump |-> "nonSemver"]] >>

----------------------------------------------------------------------------
(* label, short, choice *)

\* the installed version wins over the manifest's
label_BumpFirst(dep) ==
    LET mismatched == IF Truthy(dep.mismatch) THEN dep.packageJson ELSE ""
        installed == IF Truthy(dep.bump) THEN dep.installed ELSE mismatched
        name == yellow(dep.moduleName)
        type == IF Truthy(dep.devDependency) THEN green(" devDep") ELSE ""
        missing == IF Truthy(dep.notInstalled) THEN red(" missing") ELSE ""
        homepage == IF Truthy(dep.homepage) THEN blue(underline(dep.homepage)) ELSE ""
    IN  << name \o type \o missing,
           installed,
           And(installed, ">"),
           bold(Or(dep.latest, "")),
           IF Truthy(dep.latest) THEN homepage ELSE Or(dep.regError, dep.pkgError) >>

label(dep) ==
    LET bumpInstalled == IF Truthy(dep.bump) THEN dep.installed ELSE ""
        installed == IF Truthy(dep.mismatch) THEN dep.packageJson ELSE bumpInstalled
        name == yellow(dep.moduleName)
        type == IF Truthy(dep.devDependency) THEN green(" devDep") ELSE ""
        missing == IF Truthy(dep.notInstalled) THEN red(" missing") ELSE ""
        homepage == IF Truthy(dep.homepage) THEN blue(underline(dep.homepage)) ELSE ""
    IN  << name \o type \o missing,
           installed,
           And(installed, ">"),
           bold(Or(dep.latest, "")),
           IF Truthy(dep.latest) THEN homepage ELSE Or(dep.regError, dep.pkgError) >>

short(dep) == dep.moduleName \o "@" \o dep.latest

\* h is the heap, a the address of dep; value keeps the reference
choice(h, a) ==
    LET dep == h[a]
    IN  IF ~Truthy(dep.mismatch) /\ ~Truthy(dep.bump) /\ ~Truthy(dep.notInstalled)
        THEN falseValue
        ELSE [typeof |-> "object", value |-> a, name |-> label(dep), short |-> short(dep)]

noOptions == [typeof |-> "undefined"]

\* new inquirer.Separator(colors.reset(options ? options.title : ''))
unselectable(options) ==
    [typeof |-> "object",
     type |-> "separator",
     line |-> reset(IF options # noOptions THEN options.title ELSE "")]

----------------------------------------------------------------------------
(* createChoices *)

\* a key is checked only when the filter's value for it is truthy
filterPkg_Truthy(pkg, filter) ==
    IF "mismatch" \in DOMAIN filter /\ Truthy(filter.mismatch) /\ pkg.mismatch # filter.mismatch
    THEN FALSE
    ELSE IF "bump" \in DOMAIN filter /\ Truthy(filter.bump) /\ pkg.bump # filter.bump
    THEN FALSE
    ELSE IF "notInstalled" \in DOMAIN filter /\ Truthy(filter.notInstalled)
                /\ pkg.notInstalled # filter.notInstalled
    THEN FALSE
    ELSE TRUE

\* the callback of packages.filter: TRUE keeps pkg
filterPkg(pkg, filter) ==
    IF "mismatch" \in DOMAIN filter /\ pkg.mismatch # filter.mismatch
    THEN FALSE
    ELSE IF "bump" \in DOMAIN filter /\ pkg.bump # filter.bump
    THEN FALSE
    ELSE IF "notInstalled" \in DOMAIN filter /\ pkg.notInstalled # filter.notInstalled
    THEN FALSE
    ELSE TRUE

\* typeof choice === 'object' && 'name' in choice
HasName(c) == c.typeof = "object" /\ "name" \in DOMAIN c

\* colWidths of the CliTable
ColWidth1 == 50

ColWidth2 == 10

ColWidth3 == 3

ColWidth4 == 10

ColWidth5 == 100

colWidths == <<ColWidth1, ColWidth2, ColWidth3, ColWidth4, ColWidth5>>

Spaces[n \in 0..ColWidth5] == IF n = 0 THEN "" ELSE Spaces[n - 1] \o " "

\* cli-table pads a cell to its column's width less the two padding blanks
\* and puts one blank on each side.  The length is taken of the text as
\* modelled, escape codes included; a text that fills its column is left
\* as it is (cli-table would truncate it), and no cell holds a newline.
tableCell(text, width) ==
    LET inner == width - 2
    IN  " " \o (IF Len(text) < inner THEN text \o Spaces[inner - Len(text)] ELSE text) \o " "

\* one row: chars.left, the cells joined by chars.middle (' '), chars.right
tableRow(row) ==
    tableCell(row[1], colWidths[1]) \o " " \o
    tableCell(row[2], colWidths[2]) \o " " \o
    tableCell(row[3], colWidths[3]) \o " " \o
    tableCell(row[4], colWidths[4]) \o " " \o
    tableCell(row[5], colWidths[5])

\* cliTable.toString().split('\n'): every border is '', so the text is the
\* rows joined by '\n'; the empty table renders as '' and splits into ['']
tableToStringSplit(rows) ==
    IF Len(rows) = 0 THEN <<"">> ELSE [i \in 1..Len(rows) |-> tableRow(rows[i])]

\* the line of the following row is written back
rewrite_Next(st, lines, i) ==
    IF HasName(st.choices[i])
    THEN [st EXCEPT !.choices[i].name = At(lines, i + 1)]
    ELSE st

\* the line is also written into the wrapped record
rewrite_IntoDep(st, lines, i) ==
    IF HasName(st.choices[i])
    THEN [st EXCEPT !.choices[i].name = At(lines, i),
                    !.heap[st.choices[i].value].moduleName = At(lines, i)]
    ELSE st

\* one round of the second for loop; st = [choices, heap], i is 1-based
rewrite(st, lines, i) ==
    IF HasName(st.choices[i])
    THEN [st EXCEPT !.choices[i].name = At(lines, i)]
    ELSE st

RECURSIVE rewriteAll(_, _, _)
rewriteAll(st, lines, i) ==
    IF i > Len(st.choices) THEN st ELSE rewriteAll(rewrite(st, lines, i), lines, i + 1)

\* every package becomes a Choice of every group
createChoices_Unfiltered(h, packages, options) ==
    LET all == [i \in 1..Len(packages) |->
                   [typeof |-> "object", value |-> packages[i],
                    name |-> tableRow(label(h[packages[i]])), short |-> short(h[packages[i]])]]
    IN  [result |-> IF Len(all) > 0
                    THEN [typeof |-> "object",
                          items |-> <<unselectable(noOptions), unselectable(options)>> \o all]
                    ELSE undefinedValue,
         heap |-> h]

\* the titled section is returned even when it has no Choice
createChoices_AlwaysTitled(h, packages, options) ==
    LET filteredChoices == SelectSeq(packages, LAMBDA a: filterPkg(h[a], options.filter))
        mappedChoices == [i \in 1..Len(filteredChoices) |-> choice(h, filteredChoices[i])]
        chosen == SelectSeq(mappedChoices, BooleanOf)
        named == SelectSeq(chosen, HasName)
        lines == tableToStringSplit([i \in 1..Len(named) |-> named[i].name])
        st == rewriteAll([choices |-> chosen, heap |-> h], lines, 1)
    IN  [result |-> [typeof |-> "object",
                     items |-> <<unselectable(noOptions), unselectable(options)>> \o st.choices],
         heap |-> st.heap]

\* returns [result, heap]: the ChoiceTable (or undefinedValue) and the heap
\* after the call.  A ChoiceTable is an object holding its items.
createChoices(h, packages, options) ==
    LET filteredChoices == SelectSeq(packages, LAMBDA a: filterPkg(h[a], options.filter))
        mappedChoices == [i \in 1..Len(filteredChoices) |-> choice(h, filteredChoices[i])]
        chosen == SelectSeq(mappedChoices, BooleanOf)
        named == SelectSeq(chosen, HasName)
        lines == tableToStringSplit([i \in 1..Len(named) |-> named[i].name])
        st == rewriteAll([choices |-> chosen, heap |-> h], lines, 1)
    IN  IF Len(st.choices) > 0
        THEN [result |-> [typeof |-> "object",
                          items |-> <<unselectable(noOptions), unselectable(options)>> \o st.choices],
              heap |-> st.heap]
        ELSE [result |-> undefinedValue, heap |-> st.heap]

----------------------------------------------------------------------------
(* The npm-check records the model feeds in *)

Bool3 == {"true", "false", undefined}

Bumps == {undefined, "patch", "minor", "major", "nonSemver"}

Names == <<"left-pad", "rimraf", "colors", "semver", "inquirer">>

\* a record of the upgrade run: the flags vary, the texts are fixed
FlagDep(name, f) ==
    [moduleName |-> name, homepage |-> "https://npm.im/" \o name,
     regError |-> undefined, pkgError |-> undefined,
     latest |-> "2.0.0", installed |-> "1.0.0", packageJson |-> "^1.1.0",
     devDependency |-> "false",
     mismatch |-> f[1], bump |-> f[2], notInstalled |-> f[3]]

Flags == Bool3 \X Bumps \X Bool3

\* the records of the label run: flags and texts vary
LabelDeps ==
    [moduleName : {"left-pad"}, homepage : {"", "https://npm.im/left-pad"},
     regError : {undefined, "E404"}, pkgError : {undefined},
     latest : {"", "2.0.0"}, installed : {"", "1.0.0"}, packageJson : {"", "^1.1.0"},
     devDependency : {"true", "false"},
     mismatch : Bool3, bump : Bumps, notInstalled : {"true", "false"}]

----------------------------------------------------------------------------
(* upgradeInteractive *)

Idle ==
    /\ g = 1 /\ k = 1
    /\ mapped = <<>> /\ choicesGrouped = <<>> /\ choices = <<>>
    /\ promptQuestions = undefinedValue
    /\ console = <<>>
    /\ answers = undefinedValue
    /\ labelOut = <<>>

Init ==
    /\ \E n \in 0..MaxPkgs : \E f \in [1..n -> Flags] :
          /\ heap = [i \in 1..n |-> FlagDep(Names[i], f[i])]
          /\ pkgs = [i \in 1..n |-> i]
    /\ input = heap
    /\ pc = "map"
    /\ Idle

\* one call of the callback of UI_GROUPS.map
MapGroup ==
    /\ pc = "map" /\ g <= Len(UI_GROUPS)
    /\ LET r == createChoices(heap, pkgs, UI_GROUPS[g])
       IN  /\ mapped' = Append(mapped, r.result)
           /\ heap' = r.heap
    /\ g' = g + 1
    /\ UNCHANGED <<input, pkgs, pc, choicesGrouped, k, choices, promptQuestions,
                   console, answers, labelOut>>

\* .filter(Boolean), and const choices = []
FilterGroups ==
    /\ pc = "map" /\ g > Len(UI_GROUPS)
    /\ choicesGrouped' = SelectSeq(mapped, BooleanOf)
    /\ choices' = <<>>
    /\ k' = 1
    /\ pc' = "concat"
    /\ UNCHANGED <<heap, input, pkgs, g, mapped, promptQuestions, console, answers, labelOut>>

\* choiceGroup goes in front of the list
pushGroup_Front(list, choiceGroup) ==
    IF BooleanOf(choiceGroup) THEN choiceGroup.items \o list ELSE list

\* if (choiceGroup) choices.push(...choiceGroup)
pushGroup(list, choiceGroup) ==
    IF BooleanOf(choiceGroup) THEN list \o choiceGroup.items ELSE list

\* one round of for (const choiceGroup of choicesGrouped)
ConcatGroup ==
    /\ pc = "concat" /\ k <= Len(choicesGrouped)
    /\ choices' = pushGroup(choices, choicesGrouped[k])
    /\ k' = k + 1
    /\ UNCHANGED <<heap, input, pkgs, pc, g, mapped, choicesGrouped, promptQuestions,
                   console, answers, labelOut>>

\* the prompt is reached whatever the list holds
nothingToDo_Never(list) == FALSE

\* !choices.length
nothingToDo(list) == Len(list) = 0

UpToDate ==
    /\ pc = "concat" /\ k > Len(choicesGrouped)
    /\ nothingToDo(choices)
    /\ console' = Append(console, "All dependencies are up to date!")
    /\ answers' = [packages |-> <<>>]
    /\ pc' = "done"
    /\ UNCHANGED <<heap, input, pkgs, g, mapped, choicesGrouped, k, choices,
                   promptQuestions, labelOut>>

instructions == "Space to select. Enter to start upgrading. Control-C to cancel."

\* the instructions come first
trailer_Swapped(list) ==
    list \o <<unselectable([title |-> instructions]), unselectable(noOptions)>>

\* choices.push(unselectable()); choices.push(unselectable({ title: ... }))
trailer(list) ==
    list \o <<unselectable(noOptions), unselectable([title |-> instructions])>>

\* the two pushes, the question and the call of inquirer.prompt
Prompt ==
    /\ pc = "concat" /\ k > Len(choicesGrouped)
    /\ ~nothingToDo(choices)
    /\ choices' = trailer(choices)
    /\ promptQuestions' =
          [name |-> "packages",
           message |-> "Choose which packages to upgrade",
           type |-> "checkbox",
           choices |-> choices' \o <<unselectable(noOptions)>>]
    /\ pc' = "prompt"
    /\ UNCHANGED <<heap, input, pkgs, g, mapped, choicesGrouped, k, console, answers, labelOut>>

\* the checkbox prompt resolves to the values of the ticked Choices, in
\* list order; the operator ticks at most MaxSelected of them
Answer ==
    /\ pc = "prompt"
    /\ LET items == promptQuestions.choices
           selectable == {i \in 1..Len(items) : HasName(items[i])}
       IN  \E ticked \in {t \in SUBSET selectable : Cardinality(t) <= MaxSelected} :
              LET idx == SelectSeq([i \in 1..Len(items) |-> i], LAMBDA i : i \in ticked)
              IN  answers' = [packages |-> [j \in 1..Len(idx) |-> items[idx[j]].value]]
    /\ pc' = "done"
    /\ UNCHANGED <<heap, input, pkgs, g, mapped, choicesGrouped, k, choices,
                   promptQuestions, console, labelOut>>

Next == MapGroup \/ FilterGroups \/ ConcatGroup \/ UpToDate \/ Prompt \/ Answer

Spec == Init /\ [][Next]_vars

----------------------------------------------------------------------------
(* label on its own, over records whose texts vary too *)

InitLabel ==
    /\ \E dep \in LabelDeps : heap = <<dep>>
    /\ input = heap
    /\ pkgs = <<1>>
    /\ pc = "label"
    /\ Idle

Label ==
    /\ pc = "label"
    /\ labelOut' = label(heap[1])
    /\ pc' = "labelled"
    /\ UNCHANGED <<heap, input, pkgs, g, mapped, choicesGrouped, k, choices,
                   promptQuestions, console, answers>>

NextLabel == Label

SpecLabel == InitLabel /\ [][NextLabel]_vars

----------------------------------------------------------------------------
(* Vocabulary of the properties *)

IsSeparator(e) == "type" \in DOMAIN e /\ e.type = "separator"

IsChoice(e) == "value" \in DOMAIN e

\* the lines of the Separators: blank, one per group title, the instructions
BlankLine == reset("")

TitleLines == [j \in DOMAIN UI_GROUPS |-> reset(UI_GROUPS[j].title)]

InstructionsLine == reset(instructions)

IsBlank(e) == IsSeparator(e) /\ e.line = BlankLine

IsGroupTitle(e) == IsSeparator(e) /\ \E j \in DOMAIN UI_GROUPS : e.line = TitleLines[j]

IsInstructions(e) == IsSeparator(e) /\ e.line = InstructionsLine

\* every key of the filter is met by the record's value for it
Matches(r, filter) == \A key \in DOMAIN filter : r[key] = filter[key]

\* the record has mismatch, bump or notInstalled set
Flagged(r) == r.mismatch = "true" \/ r.bump \in Bumps \ {undefined} \/ r.notInstalled = "true"

\* the addresses of the records of group j's section, in input order
Survivors(j) ==
    SelectSeq(pkgs, LAMBDA a : Matches(input[a], UI_GROUPS[j].filter) /\ Flagged(input[a]))

\* the addresses wrapped by the Choices of a list, in list order
ValuesOf(list) ==
    LET cs == SelectSeq(list, IsChoice) IN [i \in 1..Len(cs) |-> cs[i].value]

\* the items of a result of createChoices
ItemsOf(section) == IF section = undefinedValue THEN <<>> ELSE section.items

\* how often address a is wrapped by a Choice of the list
Occurrences(list, a) == Cardinality({i \in 1..Len(list) : IsChoice(list[i]) /\ list[i].value = a})

Prompted == promptQuestions # undefinedValue

\* upgradeInteractive has put its list together and has just called the
\* prompt with it, or has returned without calling the prompt
Built == pc = "prompt" \/ (pc = "done" /\ ~Prompted)

RECURSIVE Flatten(_)
Flatten(groups) ==
    IF groups = <<>> THEN <<>> ELSE ItemsOf(Head(groups)) \o Flatten(Tail(groups))

----------------------------------------------------------------------------
(* Properties *)

\* C1: a record is wrapped by a Choice of group j's section exactly when it
\* meets every key of the group's filter (bump |-> undefined being a key),
\* so a record with mismatch and bump = minor is under Minor Update only.
C1_FilterExactMatch ==
    \A j \in 1..Len(mapped) : \A a \in 1..Len(pkgs) :
        (Occurrences(ItemsOf(mapped[j]), pkgs[a]) > 0)
            <=> Matches(input[pkgs[a]], UI_GROUPS[j].filter)

C1_Witness ==
    /\ Len(mapped) = Len(UI_GROUPS)
    /\ \E a \in 1..Len(pkgs) :
          /\ input[a].mismatch = "true" /\ input[a].bump = "minor"
          /\ Occurrences(ItemsOf(mapped[4]), a) = 1
          /\ Occurrences(ItemsOf(mapped[1]), a) = 0

\* C2: a record with none of mismatch, bump, notInstalled set is never the
\* value of a Choice, in no section and in no list of upgradeInteractive.
C2_UpToDateExcluded ==
    \A a \in 1..Len(pkgs) :
        ~Flagged(input[a]) =>
            /\ \A j \in 1..Len(mapped) : Occurrences(ItemsOf(mapped[j]), a) = 0
            /\ Occurrences(choices, a) = 0
            /\ Prompted => Occurrences(promptQuestions.choices, a) = 0

C2_Witness ==
    /\ pc = "prompt"
    /\ \E a \in 1..Len(pkgs) : ~Flagged(input[a])
    /\ \E a \in 1..Len(pkgs) : Occurrences(promptQuestions.choices, a) > 0

\* C3: the section createChoices has just returned for group j holds, after
\* its two Separators, one Choice per surviving record, in input order, and
\* the i-th Choice carries the table line of the i-th surviving record's
\* label.
C3_RowsAligned ==
    (pc = "map" /\ Len(mapped) > 0) =>
        LET j == Len(mapped)
            items == ItemsOf(mapped[j])
            cs == SelectSeq(items, IsChoice)
            sv == Survivors(j)
        IN  /\ Len(cs) = Len(sv)
            /\ \A i \in 1..Len(cs) :
                  /\ cs[i].value = sv[i]
                  /\ cs[i].name = tableRow(label(input[sv[i]]))

C3_Witness ==
    \E j \in 1..Len(mapped) :
        LET cs == SelectSeq(ItemsOf(mapped[j]), IsChoice)
        IN  /\ Len(cs) = 2
            /\ cs[1].name # cs[2].name
            /\ cs[1].name = tableRow(label(input[cs[1].value]))

\* the order the groups are to be shown in, by filter
DisplayOrder ==
    << [mismatch |-> "true", bump |-> undefined],
       [notInstalled |-> "true", bump |-> undefined],
       [bump |-> "patch"], [bump |-> "minor"], [bump |-> "major"], [bump |-> "nonSemver"] >>

\* the place in DisplayOrder of the group whose title the Separator shows
RankOf(e) ==
    CHOOSE r \in DOMAIN DisplayOrder :
        \E j \in DOMAIN UI_GROUPS :
            /\ e.line = TitleLines[j]
            /\ UI_GROUPS[j].filter = DisplayOrder[r]

\* C4: the titled sections of the list come in declaration order
\* (mismatch, missing, patch, minor, major, non-semver), whatever the order
\* of the input.
C4_DeclarationOrder ==
    Built =>
        \A p, q \in 1..Len(choices) :
            (p < q /\ IsGroupTitle(choices[p]) /\ IsGroupTitle(choices[q]))
                => RankOf(choices[p]) < RankOf(choices[q])

C4_Witness ==
    /\ Built
    /\ Len(pkgs) = 2
    /\ input[1].bump = "major" /\ input[2].bump = undefined /\ input[2].mismatch = "true"
    /\ \E p, q \in 1..Len(choices) :
          /\ p < q /\ IsGroupTitle(choices[p]) /\ IsGroupTitle(choices[q])
          /\ choices[p + 1].value = 2 /\ choices[q + 1].value = 1

\* the groups that have a surviving record
LiveGroups == {j \in DOMAIN UI_GROUPS : Len(Survivors(j)) > 0}

TitlePositions(list) == {p \in 1..Len(list) : IsGroupTitle(list[p])}

\* C5: the list has one group title per group with a surviving record, and
\* every group title stands between a blank Separator and a Choice.
C5_NoEmptySection ==
    Built =>
        /\ Cardinality(TitlePositions(choices)) = Cardinality(LiveGroups)
        /\ \A p \in TitlePositions(choices) :
              /\ p > 1 /\ IsBlank(choices[p - 1])
              /\ p < Len(choices) /\ IsChoice(choices[p + 1])

C5_Witness ==
    /\ Built
    /\ Len(pkgs) = 2
    /\ input[1].mismatch = "true" /\ input[1].bump = undefined /\ input[1].notInstalled = "false"
    /\ input[2].mismatch = "false" /\ input[2].bump = "major"
    /\ Cardinality(TitlePositions(choices)) = 2
    /\ ValuesOf(choices) = <<1, 2>>

AnyFlagged == \E a \in 1..Len(pkgs) : Flagged(input[a])

\* C6: the prompt is called exactly when some record has mismatch, bump or
\* notInstalled set; otherwise the one status line is logged and the empty
\* selection returned.
C6_PromptIffFlagged ==
    /\ Prompted => (AnyFlagged /\ console = <<>>)
    /\ (Built /\ AnyFlagged) => Prompted
    /\ (Built /\ ~AnyFlagged) =>
          /\ pc = "done"
          /\ console = <<"All dependencies are up to date!">>
          /\ answers = [packages |-> <<>>]

C6_Witness ==
    /\ pc = "done" /\ Len(pkgs) = 2 /\ ~AnyFlagged
    /\ ~Prompted /\ Len(console) = 1

\* C7 as stated: when the prompt is called, the list handed to it is the concatenation of the
\* groups, a blank Separator and the instructions, and nothing else.
C7_AsStated ==
    pc = "prompt" =>
        promptQuestions.choices =
            Flatten(choicesGrouped)
                \o <<unselectable(noOptions), unselectable([title |-> instructions])>>

\* C7 amended: when the prompt is called, the list handed to it is the concatenation of the
\* groups, a blank Separator, the instructions and one more blank Separator.
C7_TrailerThenBlank ==
    pc = "prompt" =>
        LET list == promptQuestions.choices
            n == Len(Flatten(choicesGrouped))
        IN  /\ Len(list) = n + 3
            /\ SubSeq(list, 1, n) = Flatten(choicesGrouped)
            /\ n > 0
            /\ IsBlank(list[n + 1])
            /\ IsInstructions(list[n + 2])
            /\ IsBlank(list[n + 3])

C7_Witness == pc = "prompt" /\ Prompted /\ Len(promptQuestions.choices) > 6

\* C8: no input record is changed, every Choice still wraps the address of
\* the input record its name and short label were made from, and the prompt
\* returns addresses of input records.
C8_InputUntouched ==
    /\ heap = input
    /\ \A i \in 1..Len(choices) :
          IsChoice(choices[i]) =>
              /\ choices[i].value \in 1..Len(pkgs)
              /\ choices[i].short = short(input[choices[i].value])
    /\ (pc = "done" /\ Prompted) =>
          \A i \in 1..Len(answers.packages) :
              Occurrences(promptQuestions.choices, answers.packages[i]) > 0

C8_Witness ==
    /\ pc = "done" /\ Prompted
    /\ Len(answers.packages) = 1
    /\ heap = input
    /\ heap[answers.packages[1]].moduleName = "rimraf"

\* C9: label returns five fields; the second is packageJson when mismatch
\* is set, else installed when bump is set, else empty; the third is '>'
\* exactly when the second is not empty, and empty otherwise.
C9_CurrentVersion ==
    pc = "labelled" =>
        LET dep == heap[1]
            current == IF dep.mismatch = "true" THEN dep.packageJson
                       ELSE IF dep.bump \in Bumps \ {undefined} THEN dep.installed
                       ELSE ""
        IN  /\ Len(labelOut) = 5
            /\ labelOut[2] = current
            /\ labelOut[3] = (IF labelOut[2] # "" THEN ">" ELSE "")

C9_Witness ==
    /\ pc = "labelled"
    /\ heap[1].mismatch = "true" /\ heap[1].bump = "major"
    /\ heap[1].packageJson = "^1.1.0" /\ heap[1].installed = "1.0.0"
    /\ labelOut[2] = "^1.1.0" /\ labelOut[3] = ">"

\* C10 as stated: every record with a flag set is the value of exactly one
\* Choice of the list, and the list has as many Choices as such records.
C10_AsStated ==
    Built =>
        /\ \A a \in 1..Len(pkgs) : Flagged(input[a]) => Occurrences(choices, a) = 1
        /\ Len(ValuesOf(choices)) = Cardinality({a \in 1..Len(pkgs) : Flagged(input[a])})

\* the record is both a mismatch and missing, and has no bump
MismatchedAndMissing(r) ==
    r.mismatch = "true" /\ r.notInstalled = "true" /\ r.bump = undefined

\* C10 amended: every record with a flag set is the value of exactly one
\* Choice of the list, except that a record with mismatch and notInstalled
\* both set and no bump is the value of two (one per no-bump section); no
\* other record is the value of a Choice.
C10_OncePerMatchingGroup ==
    Built =>
        /\ \A a \in 1..Len(pkgs) :
              Occurrences(choices, a) =
                  (IF ~Flagged(input[a]) THEN 0
                   ELSE IF MismatchedAndMissing(input[a]) THEN 2
                   ELSE 1)
        /\ Len(ValuesOf(choices)) =
              Cardinality({a \in 1..Len(pkgs) : Flagged(input[a])})
              + Cardinality({a \in 1..Len(pkgs) : MismatchedAndMissing(input[a])})

C10_Witness ==
    /\ Built
    /\ Len(pkgs) = 2
    /\ MismatchedAndMissing(input[1])
    /\ input[2].mismatch = "true" /\ input[2].bump = "patch"
    /\ ValuesOf(choices) = <<1, 1, 2>>

====
